---- MODULE Spec2Model ----
(***************************************************************************)
(* BaseAsyncDictionaryApiClient (freedictionaryapi/clients/               *)
(* base_async_client.py): the three coroutines fetch_json, fetch_parser    *)
(* and fetch_word, run as tasks of one cooperative event loop over the     *)
(* abstract transport primitive fetch_api_response.                        *)
(*                                                                         *)
(* A task is one call made by the user of the client.  Its coroutine       *)
(* frames (fetch_word -> fetch_parser -> fetch_json) are a stack; pc is    *)
(* the source line the top frame executes next.  The event loop runs one   *)
(* task at a time (running) until it suspends in the transport or ends.    *)
(*                                                                         *)
(* _generate_url, _analyze_response (base_client_interface.py),            *)
(* DictionaryApiParser (parsers.py) and LanguageCodes (languages.py) are   *)
(* not part of the source at hand; they are modelled from the written      *)
(* specification, sections 4.1 - 4.4 and 7.                                *)
(***************************************************************************)
EXTENDS Naturals, Sequences, FiniteSets

\* Number of calls the user makes on the one client: the first with any
\* input, the others with the narrow inputs below.
MaxCalls == 2

\* Number of calls the user makes on the one client in the specification
\* in which every call has the narrow inputs.
MaxNarrowCalls == 3

Calls == 1..MaxCalls

NarrowCalls == 1..MaxNarrowCalls

\* Every task the event loop may come to hold.
Tasks == Calls \cup NarrowCalls

Methods == {"fetch_json", "fetch_parser", "fetch_word"}

\* ---------------------------------------------------------------- data

None == "None"

Words == {"hello", "ice cream"}

\* languages.py, spec 4.1: the closed registry and its default.
LanguageCodes == {"en_US", "ru"}

DefaultLanguageCode == "en_US"

\* What a caller may pass as language_code: nothing, a member, a non-member.
LanguageArgs == {None, "ru", "xx"}

\* Decoded JSON bodies the transport can hand back.
EntriesBody == [type |-> "list", entries |-> <<"hello">>, message |-> None]

EmptyBody == [type |-> "list", entries |-> <<>>, message |-> None]

MessageBody == [type |-> "dict", entries |-> <<>>, message |-> "x"]

NoMessageBody == [type |-> "dict", entries |-> <<>>, message |-> None]

NoBody == [type |-> "none", entries |-> <<>>, message |-> None]

Bodies == {EntriesBody, EmptyBody, MessageBody, NoMessageBody}

StatusCodes == {199, 200, 299, 300, 404, 500}

NoUrl == [language |-> None, path |-> None]

NoError == [cls |-> None, status |-> 0, message |-> None, url |-> NoUrl]

\* Failures of the transport itself (it never got a status and a body).
TransportErrors ==
    { [cls |-> k, status |-> 0, message |-> None, url |-> NoUrl] :
        k \in {"ConnectionError", "TimeoutError", "CancelledError"} }

\* A python value a frame returns: a decoded body, a parser, a Word.
NoValue == [tag |-> "none", body |-> NoBody, word |-> None]

JsonValue(b) == [tag |-> "json", body |-> b, word |-> None]

StrValue(w) == [tag |-> "str", body |-> NoBody, word |-> w]

NoResponse == [status_code |-> 0, json_response |-> NoBody]

ParserValue(b) == [tag |-> "parser", body |-> b, word |-> None]

WordValue(b, w) == [tag |-> "word", body |-> b, word |-> w]

\* The locals of a frame before it is entered (parameters included).
NoFetchJson ==
    [word |-> None, language_code |-> None, url |-> NoUrl,
     response |-> NoResponse, analyzed_response |-> NoBody]

NoFetchParser ==
    [word |-> None, language_code |-> None, json_response |-> NoValue,
     parser |-> NoValue]

NoFetchWord == [word |-> NoValue, language_code |-> None, parser |-> NoValue]

NoArgs == [method |-> None, word |-> None, language_code |-> None]

Pending == [kind |-> "pending", value |-> NoValue, error |-> NoError]

Returned(v) == [kind |-> "returned", value |-> v, error |-> NoError]

Raised(e) == [kind |-> "raised", value |-> NoValue, error |-> e]

Event(e, u, r, x) == [ev |-> e, url |-> u, response |-> r, error |-> x]

\* ------------------------------------------- collaborators (from the spec)

\* Spec 4.1: resolve(identifier), with default() when the caller gives none.
ResolveLanguage(l) == IF l = None THEN DefaultLanguageCode ELSE l

UnsupportedLanguageError ==
    [cls |-> "UnsupportedLanguageError", status |-> 0, message |-> None,
     url |-> NoUrl]

\* Spec 4.2: the word is percent-encoded for inclusion in the path.
Quote(w) == IF w = "ice cream" THEN "ice%20cream" ELSE w

\* Spec 4.2: build(word, language_code) -> (url, resolved_language_code).
GenerateUrl(w, l) == [language |-> ResolveLanguage(l), path |-> Quote(w)]

GenerateUrlRaises(w, l) == ResolveLanguage(l) \notin LanguageCodes

\* Spec 7: not-found is a refinement of DictionaryApiError.
IsInstance(e, cls) ==
    \/ e.cls = cls
    \/ e.cls = "WordNotFoundError" /\ cls = "DictionaryApiError"

GenericMessage == "unexpected error"

ExtractMessage(b) == IF b.message # None THEN b.message ELSE GenericMessage

\* Spec 4.3: analyze(url, status_code, decoded_body) -> decoded_body | raises.
IsSuccess(status) == status >= 200 /\ status <= 299

AnalyzeResponse(u, status, b) == b

AnalyzeResponseError(u, status, b) ==
    [cls |-> IF status = 404 THEN "WordNotFoundError" ELSE "DictionaryApiError",
     status |-> status, message |-> ExtractMessage(b), url |-> u]

\* Spec 4.4: parse(decoded_body) -> Word; the first entry names the word.
ParsingError ==
    [cls |-> "ParsingError", status |-> 0, message |-> None, url |-> NoUrl]

ParserWordRaises(p) == p.body.type # "list" \/ p.body.entries = <<>>

ParserWord(p) == WordValue(p.body, p.body.entries[1])

\* ---------------------------------------------------------------- state

VARIABLES
    args,       \* args[c]: the method the user called and its arguments
    stack,      \* stack[c]: the coroutine frames of task c, innermost last
    pc,         \* pc[c]: the line the innermost frame executes next
    fj,         \* fj[c]: locals of the fetch_json frame
    fp,         \* fp[c]: locals of the fetch_parser frame
    fw,         \* fw[c]: locals of the fetch_word frame
    exc,        \* exc[c]: the exception unwinding task c's frames
    outcome,    \* outcome[c]: what the user's await of the call gave
    running,    \* the task the event loop is executing, 0 when none
    requests,   \* requests the transport has accepted and not yet answered
    log         \* log[c]: the collaborators task c has invoked, in order

vars == <<args, stack, pc, fj, fp, fw, exc, outcome, running, requests, log>>

Init ==
    /\ args = [c \in Tasks |-> NoArgs]
    /\ stack = [c \in Tasks |-> <<>>]
    /\ pc = [c \in Tasks |-> "idle"]
    /\ fj = [c \in Tasks |-> NoFetchJson]
    /\ fp = [c \in Tasks |-> NoFetchParser]
    /\ fw = [c \in Tasks |-> NoFetchWord]
    /\ exc = [c \in Tasks |-> NoError]
    /\ outcome = [c \in Tasks |-> Pending]
    /\ running = 0
    /\ requests = {}
    /\ log = [c \in Tasks |-> <<>>]

EntryLine(m) ==
    CASE m = "fetch_word" -> "L165"
      [] m = "fetch_parser" -> "L145"
      [] m = "fetch_json" -> "L120"

\* The user calls one of the three coroutines; the loop starts the task.
Call(c) ==
    /\ running = 0
    /\ pc[c] = "idle"
    /\ \E m \in Methods, w \in Words, l \in LanguageArgs :
        /\ args' = [args EXCEPT ![c] = [method |-> m, word |-> w, language_code |-> l]]
        /\ stack' = [stack EXCEPT ![c] = <<m>>]
        /\ pc' = [pc EXCEPT ![c] = EntryLine(m)]
        /\ fw' = IF m = "fetch_word"
                 THEN [fw EXCEPT ![c].word = StrValue(w), ![c].language_code = l]
                 ELSE fw
        /\ fp' = IF m = "fetch_parser"
                 THEN [fp EXCEPT ![c].word = w, ![c].language_code = l]
                 ELSE fp
        /\ fj' = IF m = "fetch_json"
                 THEN [fj EXCEPT ![c].word = w, ![c].language_code = l]
                 ELSE fj
    /\ running' = c
    /\ UNCHANGED <<exc, outcome, requests, log>>

\* `return v` of the innermost frame: the awaiting frame, or the user, gets v.
Return(c, v) ==
    LET rest == SubSeq(stack[c], 1, Len(stack[c]) - 1) IN
    /\ stack' = [stack EXCEPT ![c] = rest]
    /\ IF rest = <<>>
       THEN /\ outcome' = [outcome EXCEPT ![c] = Returned(v)]
            /\ pc' = [pc EXCEPT ![c] = "done"]
            /\ running' = 0
            /\ UNCHANGED <<fp, fw>>
       ELSE /\ UNCHANGED <<outcome, running>>
            /\ IF rest[Len(rest)] = "fetch_parser"
               THEN /\ fp' = [fp EXCEPT ![c].json_response = v]
                    /\ pc' = [pc EXCEPT ![c] = "L146"]
                    /\ UNCHANGED fw
               ELSE /\ fw' = [fw EXCEPT ![c].parser = v]
                    /\ pc' = [pc EXCEPT ![c] = "L166"]
                    /\ UNCHANGED fp

\* An exception raised in the innermost frame of task c.
Raise(c, e) ==
    /\ exc' = [exc EXCEPT ![c] = e]
    /\ pc' = [pc EXCEPT ![c] = "raise"]

fetch_word_passes_no_language(c) ==
    [word |-> fw[c].word.word, language_code |-> None]

\* The arguments fetch_word passes on at line 165: (word, language_code).
fetch_word_passes(c) ==
    [word |-> fw[c].word.word, language_code |-> fw[c].language_code]

\* fetch_word, line 165: parser = await self.fetch_parser(word, language_code)
fetch_word_L165(c) ==
    /\ running = c
    /\ pc[c] = "L165"
    /\ stack' = [stack EXCEPT ![c] = Append(@, "fetch_parser")]
    /\ fp' = [fp EXCEPT ![c].word = fetch_word_passes(c).word,
                        ![c].language_code = fetch_word_passes(c).language_code]
    /\ pc' = [pc EXCEPT ![c] = "L145"]
    /\ UNCHANGED <<args, fj, fw, exc, outcome, running, requests, log>>

fetch_parser_passes_no_language(c) ==
    [word |-> fp[c].word, language_code |-> None]

\* The arguments fetch_parser passes on at line 145: (word, language_code).
fetch_parser_passes(c) ==
    [word |-> fp[c].word, language_code |-> fp[c].language_code]

\* fetch_parser, line 145: json_response = await self.fetch_json(word, language_code)
fetch_parser_L145(c) ==
    /\ running = c
    /\ pc[c] = "L145"
    /\ stack' = [stack EXCEPT ![c] = Append(@, "fetch_json")]
    /\ fj' = [fj EXCEPT ![c].word = fetch_parser_passes(c).word,
                        ![c].language_code = fetch_parser_passes(c).language_code]
    /\ pc' = [pc EXCEPT ![c] = "L120"]
    /\ UNCHANGED <<args, fp, fw, exc, outcome, running, requests, log>>

\* fetch_json, line 120: url, language_code = self._generate_url(word, language_code)
fetch_json_L120(c) ==
    LET w == fj[c].word
        l == fj[c].language_code
    IN
    /\ running = c
    /\ pc[c] = "L120"
    /\ IF GenerateUrlRaises(w, l)
       THEN /\ Raise(c, UnsupportedLanguageError)
            /\ UNCHANGED <<fj, log>>
       ELSE /\ fj' = [fj EXCEPT ![c].url = GenerateUrl(w, l),
                                ![c].language_code = ResolveLanguage(l)]
            /\ log' = [log EXCEPT ![c] = Append(@, Event("url", GenerateUrl(w, l), NoResponse, NoError))]
            /\ pc' = [pc EXCEPT ![c] = "L124"]
            /\ UNCHANGED exc
    /\ UNCHANGED <<args, stack, fp, fw, outcome, running, requests>>

RequestUrl_default_language(c) == GenerateUrl(fj[c].word, None)

\* The url fetch_json hands to the transport: its own local.
RequestUrl(c) == fj[c].url

\* fetch_json, line 124: ... = await self.fetch_api_response(url); the task
\* suspends until the transport answers.
fetch_json_L124(c) ==
    /\ running = c
    /\ pc[c] = "L124"
    /\ requests' = requests \cup {[task |-> c, url |-> RequestUrl(c)]}
    /\ log' = [log EXCEPT ![c] = Append(@, Event("request", RequestUrl(c), NoResponse, NoError))]
    /\ pc' = [pc EXCEPT ![c] = "await"]
    /\ running' = 0
    /\ UNCHANGED <<args, stack, fj, fp, fw, exc, outcome>>

\* fetch_api_response returns (status code, decoded body); the task resumes
\* and line 124 unpacks the tuple into response_status_code, json_response.
fetch_api_response_return(c) ==
    /\ running = 0
    /\ pc[c] = "await"
    /\ \E req \in requests, s \in StatusCodes, b \in Bodies :
        /\ req.task = c
        /\ requests' = requests \ {req}
        /\ fj' = [fj EXCEPT ![c].response = [status_code |-> s, json_response |-> b]]
        /\ log' = [log EXCEPT ![c] =
                     Append(@, Event("response", req.url,
                                     [status_code |-> s, json_response |-> b], NoError))]
    /\ pc' = [pc EXCEPT ![c] = "L127"]
    /\ running' = c
    /\ UNCHANGED <<args, stack, fp, fw, exc, outcome>>

fetch_api_response_raise_retried(c) ==
    /\ running = 0
    /\ pc[c] = "await"
    /\ \E req \in requests :
        /\ req.task = c
        /\ requests' = requests \ {req}
    /\ log' = [log EXCEPT ![c] = SubSeq(@, 1, Len(@) - 1)]
    /\ pc' = [pc EXCEPT ![c] = "L124"]
    /\ running' = c
    /\ UNCHANGED <<args, stack, fj, fp, fw, exc, outcome>>

\* fetch_api_response raises (connection error, timeout, cancellation): the
\* task resumes with the exception raised at line 124.
fetch_api_response_raise(c) ==
    /\ running = 0
    /\ pc[c] = "await"
    /\ \E req \in requests, e \in TransportErrors :
        /\ req.task = c
        /\ requests' = requests \ {req}
        /\ Raise(c, e)
        /\ log' = [log EXCEPT ![c] = Append(@, Event("failure", req.url, NoResponse, e))]
    /\ running' = c
    /\ UNCHANGED <<args, stack, fj, fp, fw, outcome>>

AnalyzeUrl_shared(c) ==
    IF \E d \in Tasks \ {c} : fj[d].url # NoUrl
    THEN fj[CHOOSE d \in Tasks \ {c} : fj[d].url # NoUrl].url
    ELSE fj[c].url

\* The url fetch_json passes to the analyzer: its own local.
AnalyzeUrl(c) == fj[c].url

AnalyzeArgs_shared(c) ==
    IF \E d \in Tasks \ {c} : fj[d].response # NoResponse
    THEN fj[CHOOSE d \in Tasks \ {c} : fj[d].response # NoResponse].response
    ELSE fj[c].response

AnalyzeArgs_no_body(c) ==
    [status_code |-> fj[c].response.status_code, json_response |-> NoMessageBody]

\* The (response_status_code, json_response) fetch_json passes to the
\* analyzer: its own locals, as line 124 unpacked them.
AnalyzeArgs(c) == fj[c].response

fetch_json_L127_swallows(c) ==
    LET u == AnalyzeUrl(c)
        r == AnalyzeArgs(c)
    IN
    /\ running = c
    /\ pc[c] = "L127"
    /\ log' = [log EXCEPT ![c] = Append(@, Event("analyze", u, r, NoError))]
    /\ fj' = [fj EXCEPT ![c].analyzed_response = r.json_response]
    /\ pc' = [pc EXCEPT ![c] = "L129"]
    /\ UNCHANGED <<args, stack, fp, fw, exc, outcome, running, requests>>

\* fetch_json, line 127: analyzed_response = self._analyze_response(url, ...)
fetch_json_L127(c) ==
    LET u == AnalyzeUrl(c)
        r == AnalyzeArgs(c)
    IN
    /\ running = c
    /\ pc[c] = "L127"
    /\ log' = [log EXCEPT ![c] = Append(@, Event("analyze", u, r, NoError))]
    /\ IF IsSuccess(r.status_code)
       THEN /\ fj' = [fj EXCEPT ![c].analyzed_response =
                        AnalyzeResponse(u, r.status_code, r.json_response)]
            /\ pc' = [pc EXCEPT ![c] = "L129"]
            /\ UNCHANGED exc
       ELSE /\ Raise(c, AnalyzeResponseError(u, r.status_code, r.json_response))
            /\ UNCHANGED fj
    /\ UNCHANGED <<args, stack, fp, fw, outcome, running, requests>>

fetch_json_returns_nothing(c) == NoValue

\* What line 129 returns: analyzed_response.
fetch_json_returns(c) == JsonValue(fj[c].analyzed_response)

\* fetch_json, line 129: return analyzed_response
fetch_json_L129(c) ==
    /\ running = c
    /\ pc[c] = "L129"
    /\ Return(c, fetch_json_returns(c))
    /\ UNCHANGED <<args, fj, exc, requests, log>>

\* fetch_parser, line 146: parser = DictionaryApiParser(json_response)
fetch_parser_L146(c) ==
    /\ running = c
    /\ pc[c] = "L146"
    /\ fp' = [fp EXCEPT ![c].parser = ParserValue(fp[c].json_response.body)]
    /\ log' = [log EXCEPT ![c] =
                 Append(@, Event("parser", NoUrl,
                                 [status_code |-> 0, json_response |-> fp[c].json_response.body],
                                 NoError))]
    /\ pc' = [pc EXCEPT ![c] = "L148"]
    /\ UNCHANGED <<args, stack, fj, fw, exc, outcome, running, requests>>

\* fetch_parser, line 148: return parser
fetch_parser_L148(c) ==
    /\ running = c
    /\ pc[c] = "L148"
    /\ Return(c, fp[c].parser)
    /\ UNCHANGED <<args, fj, exc, requests, log>>

\* fetch_word, line 166: word = parser.word
fetch_word_L166(c) ==
    /\ running = c
    /\ pc[c] = "L166"
    /\ log' = [log EXCEPT ![c] =
                 Append(@, Event("word", NoUrl,
                                 [status_code |-> 0, json_response |-> fw[c].parser.body],
                                 NoError))]
    /\ IF ParserWordRaises(fw[c].parser)
       THEN /\ Raise(c, ParsingError)
            /\ UNCHANGED fw
       ELSE /\ fw' = [fw EXCEPT ![c].word = ParserWord(fw[c].parser)]
            /\ pc' = [pc EXCEPT ![c] = "L168"]
            /\ UNCHANGED exc
    /\ UNCHANGED <<args, stack, fj, fp, outcome, running, requests>>

\* fetch_word, line 168: return word
fetch_word_L168(c) ==
    /\ running = c
    /\ pc[c] = "L168"
    /\ Return(c, fw[c].word)
    /\ UNCHANGED <<args, fj, exc, requests, log>>

Reraise_wrapped(frame, e) ==
    IF e \in TransportErrors
    THEN [cls |-> "DictionaryApiError", status |-> 0, message |-> e.cls, url |-> NoUrl]
    ELSE e

\* What a frame without try/except makes of an exception passing through it.
Reraise(frame, e) == e

\* No frame of the three coroutines has a try/except: an exception leaves
\* the innermost frame for the frame awaiting it (lines 145, 165), or for
\* the user when no frame is left.
Propagate(c) ==
    LET rest == SubSeq(stack[c], 1, Len(stack[c]) - 1)
        e == Reraise(stack[c][Len(stack[c])], exc[c])
    IN
    /\ running = c
    /\ pc[c] = "raise"
    /\ stack' = [stack EXCEPT ![c] = rest]
    /\ IF rest = <<>>
       THEN /\ outcome' = [outcome EXCEPT ![c] = Raised(e)]
            /\ exc' = [exc EXCEPT ![c] = NoError]
            /\ pc' = [pc EXCEPT ![c] = "done"]
            /\ running' = 0
       ELSE /\ exc' = [exc EXCEPT ![c] = e]
            /\ UNCHANGED <<outcome, pc, running>>
    /\ UNCHANGED <<args, fj, fp, fw, requests, log>>

\* The statements of task c that the event loop runs.
TaskStep(c) ==
    \/ fetch_word_L165(c)
    \/ fetch_parser_L145(c)
    \/ fetch_json_L120(c)
    \/ fetch_json_L124(c)
    \/ fetch_json_L127(c)
    \/ fetch_json_L129(c)
    \/ fetch_parser_L146(c)
    \/ fetch_parser_L148(c)
    \/ fetch_word_L166(c)
    \/ fetch_word_L168(c)
    \/ Propagate(c)

\* The transport answers the request of task c: it returns or it raises.
TransportStep(c) == fetch_api_response_return(c) \/ fetch_api_response_raise(c)

\* The narrow inputs: fetch_json or fetch_word without a language code,
\* answered by a 200 with a list of entries, a 500 with an error message,
\* or a timeout.
Narrow(c) ==
    /\ args[c].method # "fetch_parser"
    /\ args[c].language_code = None
    /\ fj[c].response \in
          {NoResponse,
           [status_code |-> 200, json_response |-> EntriesBody],
           [status_code |-> 500, json_response |-> MessageBody]}
    /\ exc[c].cls \notin {"ConnectionError", "CancelledError"}

\* The calls are alike, so one of them stands for the call with any input.
InScope(c) == c = 1 \/ Narrow(c)

ScopedCall(c) == Call(c) /\ InScope(c)'

ScopedTransportStep(c) == TransportStep(c) /\ InScope(c)'

Next == \E c \in Calls : ScopedCall(c) \/ TaskStep(c) \/ ScopedTransportStep(c)

\* MaxCalls calls, the first with any input.
Spec == Init /\ [][Next]_vars

NarrowCall(c) == Call(c) /\ Narrow(c)'

NarrowTransportStep(c) == TransportStep(c) /\ Narrow(c)'

NarrowNext ==
    \E c \in NarrowCalls : NarrowCall(c) \/ TaskStep(c) \/ NarrowTransportStep(c)

\* MaxNarrowCalls calls, the narrow inputs.
NarrowSpec == Init /\ [][NarrowNext]_vars

\* A background call: fetch_word("hello"), answered by the 200 or a timeout.
Background(c) ==
    /\ Narrow(c)
    /\ args[c].method # "fetch_json"
    /\ args[c].word # "ice cream"
    /\ fj[c].response.status_code # 500

InFairScope(c) == c = 1 \/ Background(c)

FairCall(c) == Call(c) /\ InFairScope(c)'

FairTransportStep(c) == TransportStep(c) /\ InFairScope(c)'

FairNext == \E c \in Calls : FairCall(c) \/ TaskStep(c) \/ FairTransportStep(c)

\* MaxCalls calls, the first with any input, the others in the background;
\* the event loop runs a task that can run, and the transport answers
\* (returns or raises) every request it accepted.
FairSpec ==
    /\ Init /\ [][FairNext]_vars
    /\ \A c \in Calls : WF_vars(TaskStep(c)) /\ WF_vars(FairTransportStep(c))

\* ------------------------------------------------------------- properties

Done(c) == pc[c] = "done"

Has(c, e) == \E i \in DOMAIN log[c] : log[c][i].ev = e

The(c, e) == log[c][CHOOSE i \in DOMAIN log[c] : log[c][i].ev = e]

Count(c, e) == Cardinality({i \in DOMAIN log[c] : log[c][i].ev = e})

In2xx(s) == s \in 200..299

\* The order URL build -> request -> transport answer -> analyze -> parse.
Rank(e) ==
    CASE e = "url" -> 1
      [] e = "request" -> 2
      [] e \in {"response", "failure"} -> 3
      [] e = "analyze" -> 4
      [] e = "parser" -> 5
      [] e = "word" -> 6

FetchJsonReturned(c) ==
    \/ args[c].method = "fetch_json" /\ outcome[c].kind = "returned"
    \/ fp[c].json_response # NoValue

\* C1: within one call the URL is built first, then the transport is invoked
\* once with that URL, then the analyzer once with that URL and the
\* (status, body) the transport returned, then the parser; no step runs
\* before its predecessor has returned and none runs twice.
C1_StrictlySequential ==
    \A c \in Tasks :
        /\ \A i \in DOMAIN log[c] : Rank(log[c][i].ev) = i
        /\ \A i \in DOMAIN log[c] : log[c][i].ev = "failure" => i = Len(log[c])
        /\ Has(c, "request") =>
               The(c, "request").url = The(c, "url").url
        /\ Cardinality({r \in requests : r.task = c}) <= 1
        /\ \A r \in requests : r.task = c =>
               /\ r.url = The(c, "url").url
               /\ pc[c] = "await" /\ Len(log[c]) = 2
        /\ Has(c, "response") =>
               The(c, "response").url = The(c, "url").url
        /\ Has(c, "analyze") =>
               /\ The(c, "analyze").url = The(c, "url").url
               /\ The(c, "analyze").response = The(c, "response").response
        /\ Has(c, "parser") =>
               /\ In2xx(The(c, "analyze").response.status_code)
               /\ fj[c].analyzed_response = The(c, "response").response.json_response
        /\ FetchJsonReturned(c) =>
               /\ Count(c, "url") = 1 /\ Count(c, "request") = 1
               /\ Count(c, "response") = 1 /\ Count(c, "analyze") = 1

C1_Witness ==
    \E c \in Tasks :
        /\ args[c].method = "fetch_word" /\ args[c].language_code = "ru"
        /\ Done(c) /\ outcome[c].kind = "returned"
        /\ Len(log[c]) = 6

\* C2: a transport response with a status in 200..299 makes fetch_json
\* return exactly the body the transport returned, and raise nothing.
C2_SuccessReturnsBody ==
    \A c \in Tasks :
        (/\ args[c].method = "fetch_json"
         /\ Has(c, "response")
         /\ In2xx(The(c, "response").response.status_code))
        => /\ outcome[c].kind # "raised"
           /\ exc[c] = NoError /\ pc[c] # "raise"
           /\ Done(c) =>
                outcome[c] = Returned(JsonValue(The(c, "response").response.json_response))

C2_Witness ==
    \E c \in Tasks :
        /\ args[c].method = "fetch_json" /\ Done(c)
        /\ Has(c, "response") /\ The(c, "response").response.status_code = 299
        /\ outcome[c] = Returned(JsonValue(MessageBody))

\* C3: a transport response with a status outside 200..299 makes fetch_json
\* return no body and raise WordNotFoundError on 404, otherwise
\* DictionaryApiError with that status and the body's message (a generic
\* message when the body has none); both are DictionaryApiError.
C3_FailureIsClassified ==
    \A c \in Tasks :
        (/\ args[c].method = "fetch_json"
         /\ Has(c, "response")
         /\ ~In2xx(The(c, "response").response.status_code))
        => LET s == The(c, "response").response.status_code
               b == The(c, "response").response.json_response
               e == outcome[c].error
           IN
           /\ outcome[c].kind # "returned"
           /\ pc[c] \notin {"L129"}
           /\ Done(c) =>
                /\ outcome[c].kind = "raised" /\ outcome[c].value = NoValue
                /\ IsInstance(e, "DictionaryApiError")
                /\ s = 404 => e.cls = "WordNotFoundError"
                /\ s # 404 =>
                     /\ e.cls = "DictionaryApiError"
                     /\ e.status = s
                     /\ e.message = IF b.message # None THEN b.message
                                                         ELSE "unexpected error"

C3_Witness ==
    \E c, d \in Tasks :
        /\ args[c].method = "fetch_json" /\ args[d].method = "fetch_json"
        /\ outcome[c].kind = "raised" /\ outcome[d].kind = "raised"
        /\ outcome[c].error.cls = "WordNotFoundError"
        /\ outcome[d].error.cls = "DictionaryApiError"
        /\ outcome[d].error.status = 500 /\ outcome[d].error.message = "x"

\* C4: a failure of the transport reaches the caller of fetch_json,
\* fetch_parser and fetch_word as that same failure: no second request, no
\* analyzer, no parser, no value.
C4_TransportFailurePassesThrough ==
    \A c \in Tasks :
        Has(c, "failure") =>
            /\ Count(c, "request") = 1
            /\ ~Has(c, "analyze") /\ ~Has(c, "parser") /\ ~Has(c, "word")
            /\ \A r \in requests : r.task # c
            /\ fp[c].parser = NoValue /\ fw[c].parser = NoValue
            /\ pc[c] \in {"raise", "done"}
            /\ pc[c] = "raise" => exc[c] = The(c, "failure").error
            /\ Done(c) => outcome[c] = Raised(The(c, "failure").error)

C4_Witness ==
    \E c \in Tasks :
        /\ args[c].method = "fetch_word" /\ Done(c)
        /\ Has(c, "failure")
        /\ outcome[c].error.cls = "TimeoutError"

\* What the transport did for call c: a response, a failure, or nothing.
TransportResult(c) ==
    IF Has(c, "response")
    THEN [kind |-> "response", response |-> The(c, "response").response, error |-> NoError]
    ELSE IF Has(c, "failure")
    THEN [kind |-> "failure", response |-> NoResponse, error |-> The(c, "failure").error]
    ELSE [kind |-> "none", response |-> NoResponse, error |-> NoError]

SameCall(c, d) ==
    /\ Done(c) /\ Done(d)
    /\ args[c].word = args[d].word
    /\ args[c].language_code = args[d].language_code
    /\ TransportResult(c) = TransportResult(d)

\* `.word` taken of what fetch_parser gave.
WordOf(o) ==
    IF o.kind # "returned" THEN o
    ELSE IF ParserWordRaises(o.value) THEN Raised(ParsingError)
    ELSE Returned(ParserWord(o.value))

\* The parser wrapping what fetch_json gave.
ParserOf(o) ==
    IF o.kind # "returned" THEN o ELSE Returned(ParserValue(o.value.body))

\* C5: fetch_word has the outcome of .word of fetch_parser, and fetch_parser
\* that of a parser around fetch_json's body, for the same arguments and
\* transport response; word and language_code reach fetch_json unchanged.
C5_ShortcutsAgree ==
    /\ \A c, d \in Tasks :
        /\ (SameCall(c, d) /\ args[c].method = "fetch_word"
                /\ args[d].method = "fetch_parser")
            => outcome[c] = WordOf(outcome[d])
        /\ (SameCall(c, d) /\ args[c].method = "fetch_parser"
                /\ args[d].method = "fetch_json")
            => outcome[c] = ParserOf(outcome[d])
    /\ \A c \in Tasks :
        /\ pc[c] = "L120" =>
              /\ fj[c].word = args[c].word
              /\ fj[c].language_code = args[c].language_code
        /\ Has(c, "request") =>
              The(c, "request").url = GenerateUrl(args[c].word, args[c].language_code)

C5_Witness ==
    \E c, d \in Tasks :
        /\ SameCall(c, d)
        /\ args[c].method = "fetch_word" /\ args[d].method = "fetch_parser"
        /\ outcome[d].kind = "returned" /\ outcome[c].kind = "returned"
        /\ outcome[c].value.word = "hello"

\* The outcome the pipeline owes a call, from its own arguments and its own
\* transport result alone.
ExpectedOutcome(m, w, l, t) ==
    IF ResolveLanguage(l) \notin LanguageCodes THEN Raised(UnsupportedLanguageError)
    ELSE IF t.kind = "failure" THEN Raised(t.error)
    ELSE IF ~In2xx(t.response.status_code)
    THEN Raised(AnalyzeResponseError(GenerateUrl(w, l), t.response.status_code,
                                     t.response.json_response))
    ELSE CASE m = "fetch_json" -> Returned(JsonValue(t.response.json_response))
           [] m = "fetch_parser" -> Returned(ParserValue(t.response.json_response))
           [] m = "fetch_word" ->
                WordOf(Returned(ParserValue(t.response.json_response)))

OwnUrl(c) == GenerateUrl(args[c].word, args[c].language_code)

\* C6: with several calls in flight, under every interleaving of their
\* suspensions and every order of the transport's answers, each call works
\* on its own URL and its own transport response and completes with the
\* outcome these determine.
C6_NoCrossContamination ==
    \A c \in Tasks :
        /\ \A i \in DOMAIN log[c] :
              log[c][i].ev \in {"url", "request", "response", "failure", "analyze"}
                 => log[c][i].url = OwnUrl(c)
        /\ \A r \in requests : r.task = c => r.url = OwnUrl(c)
        /\ Has(c, "analyze") =>
              The(c, "analyze").response = TransportResult(c).response
        /\ pc[c] = "L129" =>
              fj[c].analyzed_response = TransportResult(c).response.json_response
        /\ Done(c) =>
              outcome[c] = ExpectedOutcome(args[c].method, args[c].word,
                                           args[c].language_code, TransportResult(c))

\* Call c resumed and analyzed its response while call d is suspended in the
\* transport: d sent its request before c resumed, so both were in flight.
C6_Witness ==
    \E c, d \in Tasks :
        /\ c # d /\ args[c].word # args[d].word
        /\ pc[c] = "L129" /\ pc[d] = "await"
        /\ TransportResult(c).response.status_code = 200
        /\ fj[c].analyzed_response = EntriesBody

Unsupported(l) == l # None /\ l \notin LanguageCodes

\* C7: a language code outside the registry fails the call with
\* UnsupportedLanguageError and the transport is never invoked for it.
C7_UnsupportedLanguageBeforeNetwork ==
    \A c \in Tasks :
        (pc[c] # "idle" /\ Unsupported(args[c].language_code)) =>
            /\ ~Has(c, "request") /\ ~Has(c, "response") /\ ~Has(c, "failure")
            /\ \A r \in requests : r.task # c
            /\ pc[c] \notin {"L124", "await", "L127"}
            /\ outcome[c].kind # "returned"
            /\ Done(c) => outcome[c] = Raised(UnsupportedLanguageError)

C7_Witness ==
    \E c \in Tasks :
        /\ args[c].method = "fetch_word" /\ args[c].language_code = "xx"
        /\ Done(c) /\ outcome[c] = Raised(UnsupportedLanguageError)
        /\ log[c] = <<>>

\* C8: every call that was made eventually finishes (returns or raises),
\* given that the transport answers; once the transport has answered, the
\* call finishes without waiting for anything else.
C8_EveryCallFinishes ==
    \A c \in Tasks : (pc[c] # "idle") ~> Done(c)

C8_Witness ==
    \E c \in Tasks :
        /\ Done(c) /\ Has(c, "failure")
        /\ outcome[c].kind = "raised"
        /\ \E d \in Tasks : /\ Done(d) /\ Has(d, "response")
                            /\ outcome[d].kind = "returned"
                            /\ args[d].method = "fetch_word"

\* C9: when the analyzer raises, fetch_parser and fetch_word raise that same
\* error; a parser or a Word is only ever built from a body that came with a
\* 2xx status.
C9_ParserOnlyFromSuccess ==
    \A c \in Tasks :
        /\ (Has(c, "analyze") /\ ~In2xx(The(c, "analyze").response.status_code)) =>
              /\ ~Has(c, "parser") /\ ~Has(c, "word")
              /\ fp[c].parser = NoValue /\ fw[c].parser = NoValue
              /\ fw[c].word.tag # "word"
              /\ outcome[c].kind # "returned"
              /\ Done(c) =>
                    outcome[c] = Raised(AnalyzeResponseError(
                                     The(c, "analyze").url,
                                     The(c, "analyze").response.status_code,
                                     The(c, "analyze").response.json_response))
        /\ (\/ Has(c, "parser") \/ Has(c, "word")
            \/ fp[c].parser # NoValue \/ fw[c].parser # NoValue
            \/ fw[c].word.tag = "word"
            \/ outcome[c].value.tag \in {"parser", "word"}) =>
              /\ Has(c, "response")
              /\ In2xx(The(c, "response").response.status_code)
              /\ fp[c].parser \in {NoValue,
                     ParserValue(The(c, "response").response.json_response)}
              /\ fw[c].parser \in {NoValue,
                     ParserValue(The(c, "response").response.json_response)}

C9_Witness ==
    \E c, d \in Tasks :
        /\ args[c].method = "fetch_word" /\ Done(c)
        /\ Has(c, "analyze") /\ The(c, "analyze").response.status_code = 500
        /\ outcome[c].kind = "raised" /\ outcome[c].error.cls = "DictionaryApiError"
        /\ args[d].method = "fetch_parser" /\ Done(d)
        /\ outcome[d] = Returned(ParserValue(EntriesBody))

\* C10: the client keeps no state between calls: two calls of the same
\* method with the same arguments and the same transport result have the
\* same outcome, whatever other calls came before or ran meanwhile.
C10_NoStateBetweenCalls ==
    \A c, d \in Tasks :
        (SameCall(c, d) /\ args[c].method = args[d].method) =>
            outcome[c] = outcome[d]

\* Two equal calls after a different call that failed.
C10_Witness ==
    \E c, d, e \in Tasks :
        /\ c # d /\ SameCall(c, d) /\ args[c].method = args[d].method
        /\ args[c].method = "fetch_word"
        /\ Has(c, "response") /\ outcome[c].kind = "returned"
        /\ outcome[c] = outcome[d]
        /\ Done(e) /\ args[e].word # args[c].word /\ outcome[e].kind = "raised"
        /\ Has(e, "response") /\ The(e, "response").response.status_code = 500

====
